---------------------------- MODULE Spec2Model ----------------------------
(***************************************************************************)
(* A model of fetch_packages.py: the manifest-driven pipeline that, for    *)
(* each <package> of the manifest, filters by platform, downloads into the *)
(* cache with checksum verification and retry/backoff, resolves and cleans *)
(* the destination, extracts, renames, patches and runs autoreconf.         *)
(*                                                                         *)
(* The program is sequential; pc is its position.  One action is one step  *)
(* of the program between two interactions with its environment (the       *)
(* network, the disk, a child process).  The manifest is immutable, so a   *)
(* field of the current <package> element is drawn when ProcessPackage     *)
(* first reads it (pkg.find) and kept until the package ends.  Locals of a *)
(* function are reset when its caller has consumed its result.             *)
(*                                                                         *)
(* The element API (find / iterchildren / getchildren / pkg.format) is     *)
(* modelled as plain child lookup and child iteration.                      *)
(*                                                                         *)
(* Spec is the run of the program over a manifest.  SpecVM applies the     *)
(* pure function VersionMatch to a host version and a version-spec.         *)
(* SpecRerun is a run that ends or is killed while the watched package is  *)
(* the current one, followed by a second run with the same command line,   *)
(* manifest and host, which finds the cache file of that package as the    *)
(* first run left it.                                                       *)
(***************************************************************************)
EXTENDS Integers, Sequences, FiniteSets, TLC

(* ------------------------------ bounds -------------------------------- *)
MaxPkgs == 2
MaxUrls == 2
MaxPatches == 3
MaxExcl == 2
MaxSegs == 2
\* The place in the manifest of the package that is followed from one run of
\* the program to the next.
Watched == 1

(* ------------------------- program constants -------------------------- *)
RETRIES == 5

(* ------------------------------ strings ------------------------------- *)
\* A string is a sequence of one-character strings.
DigitVal(c) ==
    CASE c = "0" -> 0 [] c = "1" -> 1 [] c = "2" -> 2 [] c = "3" -> 3
      [] c = "4" -> 4 [] c = "5" -> 5 [] c = "6" -> 6 [] c = "7" -> 7
      [] c = "8" -> 8 [] c = "9" -> 9

\* str.find(ch) >= 0
Contains(s, ch) == \E i \in 1..Len(s) : s[i] = ch

\* s[:-1]
DropLast(s) == SubSeq(s, 1, Len(s) - 1)

\* s[1:]
DropFirst(s) == SubSeq(s, 2, Len(s))

\* int(component)
RECURSIVE ToInt(_)
ToInt(ds) ==
    IF ds = <<>> THEN 0
    ELSE 10 * ToInt(DropLast(ds)) + DigitVal(ds[Len(ds)])

\* LooseVersion.parse on a dotted-numeric string: split at ".", drop the
\* dots and the empty components, convert each component with int().
RECURSIVE ParseFrom(_, _, _)
ParseFrom(s, i, cur) ==
    IF i > Len(s)
    THEN IF cur = <<>> THEN <<>> ELSE <<ToInt(cur)>>
    ELSE IF s[i] = "."
         THEN (IF cur = <<>> THEN <<>> ELSE <<ToInt(cur)>>) \o ParseFrom(s, i + 1, <<>>)
         ELSE ParseFrom(s, i + 1, Append(cur, s[i]))

LooseVersion(s) == ParseFrom(s, 1, <<>>)

\* Python's comparison of two lists of ints: -1, 0 or 1.
RECURSIVE ListCmp(_, _)
ListCmp(a, b) ==
    IF a = <<>> /\ b = <<>> THEN 0
    ELSE IF a = <<>> THEN -1
    ELSE IF b = <<>> THEN 1
    ELSE IF a[1] < b[1] THEN -1
    ELSE IF a[1] > b[1] THEN 1
    ELSE ListCmp(Tail(a), Tail(b))

\* VersionMatch with strict comparisons.
VersionMatchStrict(v_sys, v_spec) ==
    IF Contains(v_spec, "+")
    THEN ListCmp(LooseVersion(v_sys), LooseVersion(DropLast(v_spec))) > 0
    ELSE IF Contains(v_spec, "-")
    THEN ListCmp(LooseVersion(v_sys), LooseVersion(DropFirst(v_spec))) < 0
    ELSE ListCmp(LooseVersion(v_sys), LooseVersion(v_spec)) = 0

VersionMatch(v_sys, v_spec) ==
    IF Contains(v_spec, "+")
    THEN ListCmp(LooseVersion(v_sys), LooseVersion(DropLast(v_spec))) >= 0
    ELSE IF Contains(v_spec, "-")
    THEN ListCmp(LooseVersion(v_sys), LooseVersion(DropFirst(v_spec))) <= 0
    ELSE ListCmp(LooseVersion(v_sys), LooseVersion(v_spec)) = 0

\* str.lower() on the distribution names the model uses.
Lower(name) ==
    CASE name = "Ubuntu" -> "ubuntu"
      [] name = "CentOS" -> "centos"
      [] name = "True" -> "true"
      [] OTHER -> name

PlatformMatch(system, spec) ==
    IF system[1] # spec[1] THEN FALSE
    ELSE VersionMatch(system[2], spec[2])

\* PlatformRequires looking at the first exclusion only.
ExcludeFirstOnly(info, exclude, i) ==
    IF i > Len(exclude) THEN TRUE
    ELSE ~PlatformMatch(info, exclude[i])

RECURSIVE ExcludeLoop(_, _, _)
ExcludeLoop(info, exclude, i) ==
    IF i > Len(exclude) THEN TRUE
    ELSE IF PlatformMatch(info, exclude[i]) THEN FALSE
    ELSE ExcludeLoop(info, exclude, i + 1)

(* ------------------------------ inputs -------------------------------- *)
SeqsUpTo(S, n) == UNION {[1..k -> S] : k \in 0..n}
NonEmptySeqsUpTo(S, n) == UNION {[1..k -> S] : k \in 1..n}

Dot(a, b) == a \o <<".">> \o b

\* Version segments as they are written in a manifest or reported by a host.
SegStrs == {<<"4">>, <<"0", "4">>, <<"0", "5">>, <<"1", "2">>, <<"1", "4">>}

RECURSIVE Join(_)
Join(segs) == IF Len(segs) = 1 THEN segs[1] ELSE Dot(segs[1], Join(Tail(segs)))

\* version := [0-9]+(\.[0-9]+)*
VersionStrs == {Join(segs) : segs \in NonEmptySeqsUpTo(SegStrs, MaxSegs)}

\* version_spec := -version | version | version+
SpecStrs ==
    VersionStrs \cup {<<"-">> \o v : v \in VersionStrs}
                \cup {Append(v, "+") : v \in VersionStrs}

V1204 == <<"1", "2", ".", "0", "4">>
V1404 == <<"1", "4", ".", "0", "4">>
V1405 == <<"1", "4", ".", "0", "5">>
V1604 == <<"1", "6", ".", "0", "4">>

\* What platform.dist() reports: (distname, version).
Hosts == {<<"Ubuntu", V1204>>, <<"Ubuntu", V1604>>, <<"CentOS", V1404>>}

\* <distribution> children of <exclude>: (name, version).
Exclusions ==
    {"ubuntu", "Ubuntu", "centos"}
        \X {<<"-">> \o V1404, Append(V1404, "+"), V1604}

\* <url> texts: a URL with or without the "{{ site_mirror }}" placeholder.
Urls == [placeholder : BOOLEAN]

Formats == {"tgz", "tbz", "zip", "npm", "file", "rpm"}

\* Directories of the working tree the current package can name: the top
\* directory its archive unpacks to, its <unpack-directory>, its <rename>.
Dirs == {"T", "U", "R"}

(* ------------------------------- state -------------------------------- *)
VARIABLES
    dry_run,      \* ARGS['dry_run']
    site_mirror,  \* ARGS['site_mirror'] is set
    windows,      \* platform.system() == 'Windows'
    host,         \* platform.dist(), <<>> until PlatformInfo first reads it
    pc,           \* position of the program
    idx,          \* number of <package> elements main has taken
    status,       \* how the current package stands
    error,        \* the exception that ended the run
    plat,         \* PlatformRequires: its locals and its result
    pkg,          \* the fields of the current package read so far
    dl,           \* DownloadPackage: its locals and what it did
    cache,        \* the cache file ccfile: "absent", "good" or "bad"
    isdir,        \* the directories of Dirs that exist
    files,        \* the files under each directory: "stale", of an earlier
                  \* run, and "new", of the archive unpacked in this run
    pp,           \* ProcessPackage: its locals
    ops,          \* mutating operations done for the current package
    run,          \* "first" or "second": the run of the program that is on
    kept,         \* what the first run knew and left of the watched package
    v_sys, v_spec, vm_done, vm_result  \* VersionMatch's arguments and result

vars == <<dry_run, site_mirror, windows, host, pc, idx, status, error, plat,
          pkg, dl, cache, isdir, files, pp, ops, run, kept,
          v_sys, v_spec, vm_done, vm_result>>

args == <<dry_run, site_mirror, windows>>
vmvars == <<v_sys, v_spec, vm_done, vm_result>>
disk == <<cache, isdir, files>>
runvars == <<run, kept>>

NoPlat == [platform |-> FALSE, exclude |-> <<>>, requires |-> TRUE]
NoPkg == [format |-> "", unpackdir |-> "", destination |-> "", rename |-> "",
          patches |-> 0, autoreconf |-> ""]
\* tried, last and fetched record the URL the loop handled last, what
\* became of it, and the address urlretrieve was given last.
NoDl == [urls |-> <<>>, retry_count |-> 0, url |-> 0, md5sum |-> "unbound",
         transfers |-> 0, slept |-> 0, rounds |-> 0, preexisting |-> "absent",
         tried |-> 0, last |-> "none", fetched |-> <<>>]
\* listing is how the archive was consulted for the destination and what
\* that returned, <<"none", "">> when it was not consulted; cwd, patchdir
\* and reconfdir are the directories the extraction command, patch and
\* autoreconf were last run in or against
\* ("." is the working directory of the script); unexpected is the format
\* that was printed as unexpected; ran is what was run to unpack.
NoPp == [dest |-> "", cmd |-> "", extract |-> "none", patch |-> 0,
         invoked |-> <<>>, applied |-> {}, failed |-> 0, autoreconf |-> "none",
         listing |-> <<"none", "">>, cwd |-> "none", patchdir |-> "none",
         reconfdir |-> "none", unexpected |-> "", ran |-> "none"]
NoFiles == [d \in Dirs |-> {}]
\* requires is the result of PlatformRequires ("yes" or "no"), cache the
\* state of the cache file and module whether the npm module is in
\* node_modules_tmp_dir ("yes" or "no"), each "unknown" when the first run
\* did not get to look; dirs says whether the
\* runs are given --cache-dir and --node-module-tmp-dir or use the defaults.
NoKept == [requires |-> "unknown", cache |-> "unknown", module |-> "unknown",
           dirs |-> "none"]

Init ==
    /\ dry_run \in BOOLEAN
    /\ site_mirror \in BOOLEAN
    /\ windows \in BOOLEAN
    /\ host = <<>>
    /\ pc = "main"
    /\ idx = 0
    /\ status = "none"
    /\ error = "none"
    /\ plat = NoPlat
    /\ pkg = NoPkg
    /\ dl = NoDl
    /\ cache = "absent"
    /\ isdir = {}
    /\ files = NoFiles
    /\ pp = NoPp
    /\ ops = {}
    /\ run = "first"
    /\ kept = NoKept
    /\ v_sys = <<>> /\ v_spec = <<>> /\ vm_done = FALSE /\ vm_result = FALSE

(* ------------------------- from run to run --------------------------- *)
YesNo(b) == IF b THEN "yes" ELSE "no"

\* The second run has come to the watched package.
Again == run = "second" /\ idx = Watched

\* The second run starts with an empty cache directory.
CacheForgotten == {"absent"}

\* Line 102, os.path.isfile(pkg): the states the cache file can be in when
\* DownloadPackage is called.  A first run finds whatever was there; a
\* second run finds the file as the first run left it, unless the cache
\* directory is the default one, tempfile.mkdtemp() of line 30, which is a
\* new and empty directory in every run.
CacheOnEntry ==
    IF Again /\ kept.dirs = "default" THEN {"absent"}
    ELSE IF Again /\ kept.cache # "unknown" THEN {kept.cache}
    ELSE {"absent", "good", "bad"}

\* Line 302, os.path.exists(node_modules_tmp_dir + '/' + name): whether the
\* module of an npm package is already in the temporary module directory,
\* whose default is a directory under the default cache directory.
ModuleOnEntry ==
    IF Again /\ kept.dirs = "default" THEN {FALSE}
    ELSE IF Again /\ kept.module # "unknown" THEN {kept.module = "yes"}
    ELSE BOOLEAN

\* Lines 197-198: the manifest and the host are those of the first run, so
\* PlatformRequires returns what it returned then.
SameAnswer(requires) ==
    Again /\ kept.requires # "unknown" => requires = (kept.requires = "yes")

(* ------------------------------- main --------------------------------- *)
\* main, the for loop takes the next <package>: ProcessPackage(object).
\* The cache file and the directories the model follows are those of the
\* current package: those of the package before stay on the disk and are
\* no longer followed.
MainNext ==
    /\ pc = "main"
    /\ idx < MaxPkgs
    /\ idx' = idx + 1
    /\ pc' = "filter"
    /\ status' = "pending"
    /\ plat' = NoPlat /\ pkg' = NoPkg /\ dl' = NoDl /\ pp' = NoPp
    /\ cache' = "absent" /\ isdir' = {} /\ files' = NoFiles
    /\ ops' = {}
    /\ UNCHANGED <<args, host, error, vmvars, runvars>>

\* main, the for loop is exhausted: the program ends normally.
MainEnd ==
    /\ pc = "main"
    /\ pc' = "exit"
    /\ UNCHANGED <<args, host, idx, status, error, plat, pkg, dl, disk, pp,
                   ops, vmvars, runvars>>

(* -------------------------- PlatformRequires -------------------------- *)
PlatformInfo(dist) == <<Lower(dist[1]), dist[2]>>

\* PlatformRequires(pkg): True without a <platform> section, otherwise
\* False at the first exclusion PlatformMatch accepts.
PlatformRequires ==
    /\ pc = "filter"
    /\ \E platform \in BOOLEAN :
       \E exclude \in SeqsUpTo(Exclusions, MaxExcl) :
       \E dist \in (IF host = <<>> THEN Hosts ELSE {host}) :
          /\ platform \/ exclude = <<>>
          /\ IF platform
             THEN /\ host' = dist
                  /\ plat' = [platform |-> TRUE, exclude |-> exclude,
                              requires |-> ExcludeLoop(PlatformInfo(dist), exclude, 1)]
             ELSE /\ host' = host
                  /\ plat' = [platform |-> FALSE, exclude |-> <<>>,
                              requires |-> TRUE]
    /\ SameAnswer(plat'.requires)
    /\ pc' = "filtered"
    /\ UNCHANGED <<args, idx, status, error, pkg, dl, disk, pp, ops, vmvars, runvars>>

\* ProcessPackage: if not PlatformRequires(pkg): return
\* Otherwise urls and ccfile are read and DownloadPackage is called; the
\* cache file is looked at here for the first time.
ProcessPackageFilter ==
    /\ pc = "filtered"
    /\ IF ~plat.requires
       THEN /\ pc' = "main"
            /\ status' = "filtered"
            /\ UNCHANGED <<plat, dl, cache>>
       ELSE /\ pc' = "download"
            /\ status' = "fetching"
            /\ plat' = NoPlat
            /\ \E urls \in NonEmptySeqsUpTo(Urls, MaxUrls) :
               \E found \in CacheOnEntry :
                  /\ dl' = [NoDl EXCEPT !.urls = urls, !.preexisting = found]
                  /\ cache' = found
    /\ UNCHANGED <<args, host, idx, error, pkg, isdir, files, pp, ops, vmvars, runvars>>

\* The round is given up at the first URL that does not deliver.
AfterUrlBreak(i) == "endround"

(* -------------------------- DownloadPackage --------------------------- *)
\* for url in urls: the position after URL number i of the current round.
AfterUrl(i) == IF i < Len(dl.urls) THEN "url" ELSE "endround"

\* A comparison that always succeeds.
Md5AlwaysMatches(md5sum) == TRUE

\* A comparison that never succeeds.
Md5NeverMatches(md5sum) == FALSE

\* Line 104 and line 129: md5sum == md5.
Md5Matches(md5sum) == md5sum = "good"

\* Lines 102-107: a cache file with the expected checksum ends the call,
\* any other cache file is removed; then the first round starts.
DownloadCheck ==
    /\ pc = "download"
    /\ IF cache = "absent"
       THEN /\ pc' = "url"
            /\ dl' = [dl EXCEPT !.url = 1]
            /\ UNCHANGED <<cache, ops>>
       ELSE IF Md5Matches(cache)
       THEN /\ pc' = "fetched"
            /\ dl' = [dl EXCEPT !.md5sum = cache]
            /\ UNCHANGED <<cache, ops>>
       ELSE /\ pc' = "url"
            /\ dl' = [dl EXCEPT !.md5sum = "bad", !.url = 1]
            /\ cache' = "absent"
            /\ ops' = ops \cup {"remove"}
    /\ UNCHANGED <<args, host, idx, status, error, plat, pkg, isdir, files,
                   pp, vmvars, runvars>>

\* Lines 111-117: a URL with the placeholder is skipped when no mirror is
\* configured.
Skipped(url) == url.placeholder /\ ~site_mirror

\* The text of a URL of the manifest, as the pieces that matter here: the
\* placeholder or the host of the origin, then the path.
UrlText(url) ==
    IF url.placeholder THEN <<"{{ site_mirror }}", "/pkg">>
    ELSE <<"http://origin", "/pkg">>

\* The value of --site-mirror when it is given.
Mirror == "http://mirror"

\* The URL is fetched as the manifest wrote it.
KeepPlaceholder(text) == text

\* Line 117: url.replace("{{ site_mirror }}", ARGS['site_mirror']).
Replace(text) ==
    [i \in DOMAIN text |->
       IF text[i] = "{{ site_mirror }}" THEN Mirror ELSE text[i]]

\* Lines 114-120: the address urlretrieve is given for a URL that is not
\* skipped.
Requested(url) ==
    IF \E i \in DOMAIN UrlText(url) : UrlText(url)[i] = "{{ site_mirror }}"
    THEN Replace(UrlText(url))
    ELSE UrlText(url)

\* Lines 111-131, one URL of the round.  urlretrieve either raises, leaving
\* the cache file as it was or a partial file, or completes; a completed
\* file is checksummed and either accepted or removed.
TryUrl ==
    /\ pc = "url"
    /\ IF Skipped(dl.urls[dl.url])
       THEN /\ pc' = AfterUrl(dl.url)
            /\ dl' = [dl EXCEPT !.url = dl.url + 1, !.tried = dl.url,
                                !.last = "skipped"]
            /\ UNCHANGED <<cache, ops>>
       ELSE \E outcome \in {"raises", "partial", "match", "mismatch"} :
            CASE outcome = "raises" ->
                   /\ pc' = AfterUrl(dl.url)
                   /\ dl' = [dl EXCEPT !.url = dl.url + 1,
                                       !.transfers = dl.transfers + 1,
                                       !.tried = dl.url, !.last = outcome,
                                       !.fetched = Requested(dl.urls[dl.url])]
                   /\ ops' = ops \cup {"urlretrieve"}
                   /\ UNCHANGED cache
              [] outcome = "partial" ->
                   /\ pc' = AfterUrl(dl.url)
                   /\ dl' = [dl EXCEPT !.url = dl.url + 1,
                                       !.transfers = dl.transfers + 1,
                                       !.tried = dl.url, !.last = outcome,
                                       !.fetched = Requested(dl.urls[dl.url])]
                   /\ ops' = ops \cup {"urlretrieve"}
                   /\ cache' = "bad"
              [] outcome = "match" ->
                   /\ pc' = "fetched"
                   /\ dl' = [dl EXCEPT !.md5sum = "good",
                                       !.transfers = dl.transfers + 1,
                                       !.tried = dl.url, !.last = outcome,
                                       !.fetched = Requested(dl.urls[dl.url])]
                   /\ ops' = ops \cup {"urlretrieve"}
                   /\ cache' = "good"
              [] outcome = "mismatch" ->
                   /\ pc' = AfterUrl(dl.url)
                   /\ dl' = [dl EXCEPT !.md5sum = "bad", !.url = dl.url + 1,
                                       !.transfers = dl.transfers + 1,
                                       !.tried = dl.url, !.last = outcome,
                                       !.fetched = Requested(dl.urls[dl.url])]
                   /\ ops' = ops \cup {"urlretrieve", "remove"}
                   /\ cache' = "absent"
    /\ UNCHANGED <<args, host, idx, status, error, plat, pkg, isdir, files,
                   pp, vmvars, runvars>>

\* One round too many.
MoreRoundsOffByOne(retry_count) == retry_count <= RETRIES + 1

\* Line 110: while retry_count <= _RETRIES.
MoreRounds(retry_count) == retry_count <= RETRIES

\* Lines 132-134 and the loop test of line 110: the round is over, the
\* counter goes up, the call sleeps, and the next round starts while
\* retry_count <= _RETRIES.
EndRound ==
    /\ pc = "endround"
    /\ LET n == dl.retry_count + 1 IN
         /\ dl' = [dl EXCEPT !.retry_count = n, !.rounds = dl.rounds + 1,
                             !.slept = dl.slept + 10 * n, !.url = 1]
         /\ pc' = IF MoreRounds(n) THEN "url" ELSE "raise"
    /\ UNCHANGED <<args, host, idx, status, error, plat, pkg, disk, pp, ops,
                   vmvars, runvars>>

\* Lines 137-138: the RuntimeError is built from md5sum, which is bound only
\* if a checksum was computed in this call.
DownloadRaise ==
    /\ pc = "raise"
    /\ error' = IF dl.md5sum = "unbound" THEN "UnboundLocalError"
                ELSE "RuntimeError"
    /\ pc' = "aborted"
    /\ status' = "aborted"
    /\ UNCHANGED <<args, host, idx, plat, pkg, dl, disk, pp, ops, vmvars, runvars>>

(* --------------------------- ProcessPackage --------------------------- *)
\* Lines 223-232: getTarDestination, getZipDestination, getFileDestination.
\* "T" is the first entry the listing names; getZipDestination returns None
\* when no line of the listing matches; a format without a rule leaves None.
Introspected(format) ==
    CASE format \in {"tgz", "tbz", "npm"} -> {"T"}
      [] format = "zip" -> {"T", ""}
      [] format = "file" -> {"T"}
      [] OTHER -> {""}

\* Lines 223-232: what is consulted for the destination: the listing of
\* tar with flag z or j, the listing of unzip, or the name of the file.
Lister(format) ==
    CASE format \in {"tgz", "npm"} -> "tar tz"
      [] format = "tbz" -> "tar tj"
      [] format = "zip" -> "unzip -t"
      [] format = "file" -> "basename"
      [] OTHER -> "none"

\* An explicit destination is preferred to the unpack directory.
ResolveDestExplicitFirst(unpackdir, destination, introspected) ==
    IF destination # "" THEN destination
    ELSE IF unpackdir # "" THEN unpackdir
    ELSE IF ~windows THEN introspected
    ELSE ""

\* Lines 213-232: the resolved destination, given what introspection says.
ResolveDest(unpackdir, destination, introspected) ==
    IF unpackdir # "" THEN unpackdir
    ELSE IF destination # "" THEN destination
    ELSE IF ~windows THEN introspected
    ELSE ""

\* Whether lines 223-230 run tar or unzip to list the archive.
RunsListing(unpackdir, destination, format) ==
    /\ unpackdir = "" /\ destination = "" /\ ~windows
    /\ format \in {"tgz", "tbz", "zip", "npm"}

\* Whether lines 222-232 consult the archive (or, for a file, its name) for
\* the destination.
Consults(unpackdir, destination, format) ==
    /\ unpackdir = "" /\ destination = "" /\ ~windows
    /\ format \in {"tgz", "tbz", "zip", "npm", "file"}

\* Lines 206-237: DownloadPackage has returned; the destination is resolved
\* and <rename> is read.  check_output raises when the listing command
\* fails.  The directories the package names are looked at from here on:
\* each either is absent or holds files of an earlier run.
ResolveDestination ==
    /\ pc = "fetched"
    /\ \E unpackdir \in {"", "U"}, destination \in {"", "T"},
          rename \in {"", "R"}, format \in Formats :
         /\ pkg' = [pkg EXCEPT !.unpackdir = unpackdir,
                               !.destination = destination,
                               !.rename = rename, !.format = format]
         /\ \/ /\ RunsListing(unpackdir, destination, format)
               /\ error' = "CalledProcessError"
               /\ pc' = "aborted"
               /\ status' = "aborted"
               /\ UNCHANGED <<pp, isdir, files>>
            \/ /\ \E introspected \in Introspected(format) :
                     pp' = [pp EXCEPT
                              !.dest = ResolveDest(unpackdir, destination,
                                                   introspected),
                              !.listing =
                                 IF Consults(unpackdir, destination, format)
                                 THEN <<Lister(format), introspected>>
                                 ELSE <<"none", "">>]
               /\ \E found \in SUBSET ({"T"} \cup ({unpackdir, rename} \ {""})) :
                     /\ isdir' = found
                     /\ files' = [d \in Dirs |->
                                    IF d \in found THEN {"stale"} ELSE {}]
               /\ pc' = "clean"
               /\ status' = "extracting"
               /\ UNCHANGED error
    /\ dl' = NoDl
    /\ UNCHANGED <<args, host, idx, plat, cache, ops, vmvars, runvars>>

\* shutil.rmtree(d)
Rmtree(d) ==
    /\ isdir' = isdir \ {d}
    /\ files' = [files EXCEPT ![d] = {}]
    /\ ops' = ops \cup {"rmtree"}

\* Lines 239-248: the rename target is removed if it is a directory,
\* otherwise the destination is removed if it is a directory.
CleanDirectory ==
    /\ pc = "clean"
    /\ IF pkg.rename # "" /\ pkg.rename \in isdir
       THEN IF ~dry_run THEN Rmtree(pkg.rename)
            ELSE UNCHANGED <<isdir, files, ops>>
       ELSE IF pp.dest # "" /\ pp.dest \in isdir
       THEN IF ~dry_run THEN Rmtree(pp.dest)
            ELSE UNCHANGED <<isdir, files, ops>>
       ELSE UNCHANGED <<isdir, files, ops>>
    /\ pc' = "mkdir"
    /\ UNCHANGED <<args, host, idx, status, error, plat, pkg, dl, cache, pp,
                   vmvars, runvars>>

\* Lines 250-254: os.makedirs(unpackdir), an OSError (the directory exists)
\* is ignored.
MakeUnpackDir ==
    /\ pc = "mkdir"
    /\ IF pkg.unpackdir # "" /\ pkg.unpackdir \notin isdir
       THEN /\ isdir' = isdir \cup {pkg.unpackdir}
            /\ ops' = ops \cup {"makedirs"}
       ELSE UNCHANGED <<isdir, ops>>
    /\ pc' = "format"
    /\ UNCHANGED <<args, host, idx, status, error, plat, pkg, dl, cache, files,
                   pp, vmvars, runvars>>

\* A format without a rule is unpacked as a gzipped tar archive.
CommandLenient(format) ==
    IF windows
    THEN CASE format = "zip" -> "7z"
           [] OTHER -> "7z+7z"
    ELSE CASE format = "tbz" -> "tar j"
           [] format = "zip" -> "unzip"
           [] format = "npm" -> "npm"
           [] format = "file" -> "cp"
           [] OTHER -> "tar z"

\* Lines 256-284: the extraction command of the format, "" for a format the
\* platform has no command for.
Command(format) ==
    IF windows
    THEN CASE format = "tgz" -> "7z+7z"
           [] format = "zip" -> "7z"
           [] OTHER -> ""
    ELSE CASE format = "tgz" -> "tar z"
           [] format = "tbz" -> "tar j"
           [] format = "zip" -> "unzip"
           [] format = "npm" -> "npm"
           [] format = "file" -> "cp"
           [] OTHER -> ""

\* Lines 256-284: the command is chosen; an unexpected format is printed
\* and ProcessPackage returns.
SelectCommand ==
    /\ pc = "format"
    /\ IF Command(pkg.format) = ""
       THEN /\ pc' = "main"
            /\ status' = "abandoned"
            /\ pp' = [pp EXCEPT !.unexpected = pkg.format]
       ELSE /\ pc' = "extract"
            /\ pp' = [pp EXCEPT !.cmd = Command(pkg.format)]
            /\ UNCHANGED status
    /\ UNCHANGED <<args, host, idx, error, plat, pkg, dl, disk, ops, vmvars, runvars>>

\* The directory the extraction command writes under: the unpack directory
\* when there is one, otherwise the top directory of the archive; npm
\* installs under node_modules, which is not one of Dirs.
ExtractTarget ==
    IF pkg.format = "npm" THEN ""
    ELSE IF pkg.unpackdir # "" THEN pkg.unpackdir
    ELSE "T"

\* The directory of the module of an npm package under
\* node_modules_tmp_dir.
Module == "M"

\* The extraction command has written files of the archive; for npm the
\* module is in node_modules_tmp_dir, installed now or before.
Unpacked ==
    IF ExtractTarget = ""
    THEN /\ isdir' = isdir \cup {Module}
         /\ UNCHANGED files
    ELSE /\ isdir' = isdir \cup {ExtractTarget}
         /\ files' = [files EXCEPT ![ExtractTarget] = @ \cup {"new"}]

\* The extraction command has written nothing; the module of an npm package
\* is in node_modules_tmp_dir if it was there before.
NotUnpacked(staged) ==
    /\ isdir' = isdir \cup (IF staged THEN {Module} ELSE {})
    /\ UNCHANGED files

\* Lines 300-311: what is run for the package: its extraction command, or
\* for npm the copy of the module, preceded by npm install unless the module
\* is already in node_modules_tmp_dir.
Ran(staged) ==
    IF pkg.format # "npm" THEN "command"
    ELSE IF staged THEN "copy"
    ELSE "install, copy"

\* Lines 286-289: the working directory of the extraction command, "." for
\* cd = None.
Cd == IF ~windows /\ pkg.unpackdir # "" THEN pkg.unpackdir ELSE "."

\* Lines 285-317.  Nothing is run in a dry run.  Otherwise the command is
\* run and waited for; its exit status is not looked at.  Popen raises
\* OSError when the command cannot be started.  For npm, a failing mkdirs
\* or an npm that cannot be started makes ProcessPackage return.
Extract ==
    /\ pc = "extract"
    /\ IF dry_run
       THEN /\ pc' = "rename"
            /\ UNCHANGED <<status, error, pp, isdir, files, ops>>
       ELSE \E staged \in (IF pkg.format = "npm" THEN ModuleOnEntry
                            ELSE {FALSE}) :
            \E outcome \in {"exit 0", "exit 1", "exit 1, partial", "OSError"}
                            \cup (IF pkg.format = "npm"
                                  THEN {"mkdirs failed"} \cup
                                       (IF staged THEN {} ELSE {"npm OSError"})
                                  ELSE {}) :
            CASE outcome = "exit 0" ->
                   /\ Unpacked
                   /\ pp' = [pp EXCEPT !.extract = "ok", !.cwd = Cd,
                                       !.ran = Ran(staged)]
                   /\ ops' = ops \cup {"extract"}
                   /\ pc' = "rename"
                   /\ UNCHANGED <<status, error>>
              [] outcome = "exit 1, partial" ->
                   /\ Unpacked
                   /\ pp' = [pp EXCEPT !.extract = "failed", !.cwd = Cd,
                                       !.ran = Ran(staged)]
                   /\ ops' = ops \cup {"extract"}
                   /\ pc' = "rename"
                   /\ UNCHANGED <<status, error>>
              [] outcome = "exit 1" ->
                   /\ pp' = [pp EXCEPT !.extract = "failed", !.cwd = Cd,
                                       !.ran = Ran(staged)]
                   /\ ops' = ops \cup {"extract"}
                   /\ pc' = "rename"
                   /\ NotUnpacked(staged)
                   /\ UNCHANGED <<status, error>>
              [] outcome = "OSError" ->
                   /\ pp' = [pp EXCEPT !.extract = "raised"]
                   /\ error' = "OSError"
                   /\ pc' = "aborted"
                   /\ status' = "aborted"
                   /\ UNCHANGED <<isdir, files, ops>>
              [] outcome \in {"mkdirs failed", "npm OSError"} ->
                   /\ pp' = [pp EXCEPT !.extract = "raised"]
                   /\ pc' = "main"
                   /\ status' = "abandoned"
                   /\ UNCHANGED <<error, isdir, files, ops>>
    /\ UNCHANGED <<args, host, idx, plat, pkg, dl, cache, vmvars, runvars>>

\* Lines 318-320: os.rename(dest, rename), then dest = rename.  os.rename
\* raises OSError when dest does not exist and when the target is a
\* directory that is not empty (on Windows: that exists).
Rename ==
    /\ pc = "rename"
    /\ IF pkg.rename # "" /\ pp.dest # ""
       THEN IF \/ pp.dest \notin isdir
               \/ pkg.rename \in isdir /\ (windows \/ files[pkg.rename] # {})
            THEN /\ error' = "OSError"
                 /\ pc' = "aborted"
                 /\ status' = "aborted"
                 /\ UNCHANGED <<pp, isdir, files, ops>>
            ELSE /\ isdir' = (isdir \ {pp.dest}) \cup {pkg.rename}
                 /\ files' = [files EXCEPT ![pkg.rename] = files[pp.dest],
                                           ![pp.dest] = {}]
                 /\ ops' = ops \cup {"rename"}
                 /\ pp' = [pp EXCEPT !.dest = pkg.rename]
                 /\ pc' = "patches"
                 /\ status' = "patching"
                 /\ UNCHANGED error
       ELSE /\ pc' = "patches"
            /\ status' = "patching"
            /\ UNCHANGED <<error, pp, isdir, files, ops>>
    /\ UNCHANGED <<args, host, idx, plat, pkg, dl, cache, vmvars, runvars>>

(* ---------------------------- ApplyPatches ---------------------------- *)
\* Lines 75-78: without a <patches> section there is nothing to do.
ApplyPatches ==
    /\ pc = "patches"
    /\ \E n \in 0..MaxPatches :
         /\ pkg' = [pkg EXCEPT !.patches = n]
         /\ IF n = 0
            THEN /\ pc' = "autoreconf"
                 /\ UNCHANGED pp
            ELSE /\ pc' = "patch"
                 /\ pp' = [pp EXCEPT !.patch = 1]
    /\ UNCHANGED <<args, host, idx, status, error, plat, dl, disk, ops, vmvars, runvars>>

\* The loop is left after its first patch.
AfterPatchEarly(k) == "autoreconf"

\* The position after patch number k.
AfterPatch(k) == IF k < pkg.patches THEN "patch" ELSE "autoreconf"

\* patch is given -d <destination> when the package has a <destination>,
\* and then cannot succeed when that directory does not exist.  With an
\* <unpack-directory> the archive is unpacked elsewhere and the model does
\* not say whether <destination> exists.
PatchCanSucceed ==
    \/ pkg.destination = ""
    \/ pkg.unpackdir # ""
    \/ pkg.destination \in isdir

\* Lines 78-83: the directory patch is run against: -d <destination> when
\* the package has a <destination>, otherwise the working directory.
PatchDir == IF pkg.destination # "" THEN pkg.destination ELSE "."

\* A failed patch undoing the patches applied before it.
RolledBack(applied) == {}

\* What a failed patch leaves of the patches applied before it.
AfterFailure(applied) == applied

\* Lines 79-95, one patch of the loop: nothing is run in a dry run;
\* otherwise patch is run and a non-zero exit raises PatchError.
ApplyPatch ==
    /\ pc = "patch"
    /\ IF dry_run
       THEN /\ pc' = AfterPatch(pp.patch)
            /\ pp' = [pp EXCEPT !.patch = pp.patch + 1]
            /\ UNCHANGED <<status, error, ops>>
       ELSE \/ /\ PatchCanSucceed
               /\ pc' = AfterPatch(pp.patch)
               /\ pp' = [pp EXCEPT !.patch = pp.patch + 1,
                                   !.invoked = Append(pp.invoked, pp.patch),
                                   !.applied = pp.applied \cup {pp.patch},
                                   !.patchdir = PatchDir]
               /\ ops' = ops \cup {"patch"}
               /\ UNCHANGED <<status, error>>
            \/ /\ pp' = [pp EXCEPT !.invoked = Append(pp.invoked, pp.patch),
                                   !.applied = AfterFailure(pp.applied),
                                   !.failed = pp.patch,
                                   !.patchdir = PatchDir]
               /\ ops' = ops \cup {"patch"}
               /\ error' = "PatchError"
               /\ pc' = "aborted"
               /\ status' = "aborted"
    /\ UNCHANGED <<args, host, idx, plat, pkg, dl, disk, vmvars, runvars>>

(* --------------------- ReconfigurePackageSources ---------------------- *)
\* Lines 324-326 and 141-155: with <autoreconf>true</autoreconf> autoreconf
\* is run in dest; Popen raises OSError when dest does not exist, and a
\* non-zero exit ends the run: sys.exit is called with two arguments, which
\* raises TypeError.  Then ProcessPackage returns.  ReconfDir is the
\* directory autoreconf is run in, cwd = dest, "." for dest = None.
ReconfDir == IF pp.dest # "" THEN pp.dest ELSE "."

Reconfigure ==
    /\ pc = "autoreconf"
    /\ \E text \in {"", "true", "True", "false"} :
         /\ pkg' = [pkg EXCEPT !.autoreconf = text]
         /\ IF text # "" /\ Lower(text) = "true"
            THEN IF pp.dest # "" /\ pp.dest \notin isdir
                 THEN /\ error' = "OSError"
                      /\ pc' = "aborted"
                      /\ status' = "aborted"
                      /\ UNCHANGED <<pp, ops>>
                 ELSE \/ /\ pp' = [pp EXCEPT !.autoreconf = "ok",
                                             !.reconfdir = ReconfDir]
                         /\ ops' = ops \cup {"autoreconf"}
                         /\ pc' = "main"
                         /\ status' = "done"
                         /\ UNCHANGED error
                      \/ /\ pp' = [pp EXCEPT !.autoreconf = "failed",
                                             !.reconfdir = ReconfDir]
                         /\ ops' = ops \cup {"autoreconf"}
                         /\ error' = "TypeError"
                         /\ pc' = "aborted"
                         /\ status' = "aborted"
            ELSE /\ pc' = "main"
                 /\ status' = "done"
                 /\ UNCHANGED <<error, pp, ops>>
    /\ UNCHANGED <<args, host, idx, plat, dl, disk, vmvars, runvars>>

(* ---------------------------- VersionMatch ---------------------------- *)
\* VersionMatch applied to a host version and a version-spec.
ApplyVersionMatch ==
    /\ ~vm_done
    /\ vm_done' = TRUE
    /\ vm_result' = VersionMatch(v_sys, v_spec)
    /\ UNCHANGED <<args, host, pc, idx, status, error, plat, pkg, dl, disk,
                   pp, ops, v_sys, v_spec, runvars>>

InitVM ==
    /\ dry_run = FALSE /\ site_mirror = FALSE /\ windows = FALSE
    /\ host = <<>>
    /\ pc = "exit"
    /\ idx = 0
    /\ status = "none"
    /\ error = "none"
    /\ plat = NoPlat
    /\ pkg = NoPkg
    /\ dl = NoDl
    /\ cache = "absent"
    /\ isdir = {}
    /\ files = NoFiles
    /\ pp = NoPp
    /\ ops = {}
    /\ run = "first"
    /\ kept = NoKept
    /\ v_sys \in VersionStrs
    /\ v_spec \in SpecStrs
    /\ vm_done = FALSE /\ vm_result = FALSE

SpecVM == InitVM /\ [][ApplyVersionMatch]_vars

Next ==
    \/ ApplyPatches
    \/ ApplyPatch
    \/ Reconfigure
    \/ MainNext
    \/ MainEnd
    \/ PlatformRequires
    \/ ProcessPackageFilter
    \/ DownloadCheck
    \/ TryUrl
    \/ EndRound
    \/ DownloadRaise
    \/ ResolveDestination
    \/ CleanDirectory
    \/ MakeUnpackDir
    \/ SelectCommand
    \/ Extract
    \/ Rename

Spec == Init /\ [][Next]_vars

(* --------------------------- the second run --------------------------- *)
\* The program has ended, or is killed, while the watched package is the
\* current one, and is started again with the same command line over the
\* same manifest on the same host (lines 358-383).  A kill during a
\* transfer leaves a part of the file.  What is on the disk stays there;
\* the new process starts main from the beginning.  A first run that ends
\* before PlatformRequires has answered leaves nothing to tell the second
\* run from a first one, and is not followed.  With the default
\* directories only whether the cache file was good is kept, for the
\* second run cannot see any of it.
Rerun ==
    /\ run = "first"
    /\ idx = Watched
    /\ pc # "filter"
    /\ \E dirs \in {"given", "default"} :
       \E left \in {cache} \cup
                   (IF pc = "url" /\ ~Skipped(dl.urls[dl.url])
                    THEN {"bad"} ELSE {}) :
          kept' = [requires |->
                      IF status = "pending" THEN YesNo(plat.requires)
                      ELSE YesNo(status # "filtered"),
                   cache |->
                      IF status \in {"pending", "filtered"} THEN "unknown"
                      ELSE IF dirs = "default" /\ left # "good" THEN "absent"
                      ELSE left,
                   module |->
                      IF dirs = "given" /\ pkg.format = "npm"
                                       /\ pp.ran # "none"
                      THEN YesNo(Module \in isdir) ELSE "unknown",
                   dirs |-> dirs]
    /\ run' = "second"
    /\ pc' = "main"
    /\ idx' = 0
    /\ status' = "none"
    /\ error' = "none"
    /\ plat' = NoPlat /\ pkg' = NoPkg /\ dl' = NoDl /\ pp' = NoPp
    /\ cache' = "absent" /\ isdir' = {} /\ files' = NoFiles
    /\ ops' = {}
    /\ UNCHANGED <<args, host, vmvars>>

\* The runs are followed up to the watched package: main takes the next
\* package while the watched one is still ahead.
MainNextWatched == MainNext /\ idx < Watched

NextRerun ==
    \/ MainNextWatched
    \/ MainEnd
    \/ PlatformRequires
    \/ ProcessPackageFilter
    \/ DownloadCheck
    \/ TryUrl
    \/ EndRound
    \/ DownloadRaise
    \/ ResolveDestination
    \/ CleanDirectory
    \/ MakeUnpackDir
    \/ SelectCommand
    \/ Extract
    \/ Rename
    \/ ApplyPatches
    \/ ApplyPatch
    \/ Reconfigure
    \/ Rerun

SpecRerun == Init /\ [][NextRerun]_vars

(* ============================ properties ============================== *)
\* A call of DownloadPackage has ended in failure, all rounds exhausted.
DownloadFailed == pc = "aborted" /\ dl.retry_count > 0

\* The URLs of the call that are not skipped.
Transferable == {i \in 1..Len(dl.urls) : ~Skipped(dl.urls[i])}

\* C1 Idempotent fetch: when DownloadPackage is called and the cache file
\* already has the expected checksum, the call returns at once, for any URL
\* list and mirror setting: no transfer, no sleep, no removal, and the cache
\* file is still the good one.
C1_IdempotentFetch ==
    (status = "fetching" /\ pc # "download" /\ dl.preexisting = "good") =>
        /\ pc = "fetched"
        /\ error = "none"
        /\ dl.transfers = 0
        /\ dl.slept = 0
        /\ dl.rounds = 0
        /\ ops = {}
        /\ cache = "good"

C1_Witness ==
    /\ pc = "fetched" /\ dl.preexisting = "good"
    /\ Len(dl.urls) = 2 /\ dl.urls[1].placeholder /\ site_mirror

\* C2 Bounded retry: a call of DownloadPackage that fails has made exactly
\* RETRIES+1 rounds and at most (RETRIES+1) x |urls| transfers, the skipped
\* URLs not being transfers.
C2_BoundedRetry ==
    DownloadFailed =>
        /\ dl.rounds = RETRIES + 1
        /\ dl.transfers <= (RETRIES + 1) * Len(dl.urls)
        /\ dl.transfers = (RETRIES + 1) * Cardinality(Transferable)

C2_Witness ==
    /\ DownloadFailed
    /\ Len(dl.urls) = 2
    /\ Cardinality(Transferable) = 1
    /\ dl.transfers = RETRIES + 1

\* C3 Worst-case backoff: a call of DownloadPackage that exhausts every
\* round has slept 10 x (1+2+3+4+5) = 150 seconds in total, and no call
\* sleeps longer than 150 seconds.
C3_WorstCaseBackoff ==
    /\ DownloadFailed => dl.slept = 150
    /\ dl.slept <= 150

\* C4 Exhaustion error: a call of DownloadPackage that exhausts every round
\* fails with the RuntimeError carrying the last computed checksum, also
\* when no checksum was ever computed.
C4_ExhaustionError ==
    DownloadFailed => error = "RuntimeError"

\* C5 Dry run: with dry_run set, no network transfer and no mutating
\* filesystem operation is performed for any package.
C5_DryRunNoMutation ==
    dry_run => ops = {}

\* C6 Patch abort: patches are invoked in manifest order; when patch k is
\* the first to fail, patches 1..k-1 stay applied, no later patch is
\* invoked, PatchError names patch k, autoreconf is not run and the run is
\* over: no step of this or of a later package follows.
C6_PatchAbort ==
    /\ pp.invoked = [i \in 1..Len(pp.invoked) |-> i]
    /\ error = "PatchError" =>
          /\ pp.failed \in 1..pkg.patches
          /\ pp.invoked = [i \in 1..pp.failed |-> i]
          /\ pp.applied = 1..(pp.failed - 1)
          /\ pc = "aborted" /\ status = "aborted"
          /\ pp.autoreconf = "none" /\ "autoreconf" \notin ops
          /\ ~ENABLED Next

C6_Witness ==
    /\ error = "PatchError"
    /\ pkg.patches = 3 /\ pp.failed = 2
    /\ pp.applied = {1}
    /\ idx < MaxPkgs

\* C7 Fail-fast: an error in any step aborts the run; in particular a
\* package whose extraction command failed or exited non-zero goes no
\* further, and no later package is processed.
C7_FailFast ==
    pp.extract \in {"failed", "raised"} => pc = "aborted"

\* Some exclusion of the package has the host's distribution name and a
\* version-spec the host version matches.
Excluded ==
    /\ plat.platform
    /\ \E i \in 1..Len(plat.exclude) :
          /\ plat.exclude[i][1] = Lower(host[1])
          /\ VersionMatch(host[2], plat.exclude[i][2])

SegVal(seg) ==
    CASE seg = <<"4">> -> 4
      [] seg = <<"0", "4">> -> 4
      [] seg = <<"0", "5">> -> 5
      [] seg = <<"1", "2">> -> 12
      [] seg = <<"1", "4">> -> 14

SegsOf(v) == CHOOSE segs \in NonEmptySeqsUpTo(SegStrs, MaxSegs) : Join(segs) = v

Nums(v) == [i \in 1..Len(SegsOf(v)) |-> SegVal(SegsOf(v)[i])]

\* a < b: at the first place they differ a has the smaller number, or a
\* ends there.
Less(a, b) ==
    \E k \in 1..(Len(b)) :
       /\ \A j \in 1..(k - 1) : j <= Len(a) /\ a[j] = b[j]
       /\ \/ k = Len(a) + 1
          \/ k <= Len(a) /\ a[k] < b[k]

\* C9 Version-spec semantics: VersionMatch(v, s+) is v >= s, VersionMatch(v,
\* -s) is v <= s and VersionMatch(v, s) is v = s, the versions compared
\* number by number; with the five examples of the specification.
C9_VersionSpec ==
    /\ vm_done =>
         \A s \in VersionStrs :
            /\ v_spec = Append(s, "+") =>
                  (vm_result <=> ~Less(Nums(v_sys), Nums(s)))
            /\ v_spec = <<"-">> \o s =>
                  (vm_result <=> ~Less(Nums(s), Nums(v_sys)))
            /\ v_spec = s =>
                  (vm_result <=> Nums(v_sys) = Nums(s))
    /\ VersionMatch(V1404, Append(V1404, "+"))
    /\ ~VersionMatch(V1204, Append(V1404, "+"))
    /\ VersionMatch(V1204, <<"-">> \o V1404)
    /\ VersionMatch(V1404, V1404)
    /\ ~VersionMatch(V1405, V1404)

C9_Witness ==
    /\ vm_done /\ vm_result
    /\ v_sys = V1204
    /\ v_spec = <<"-">> \o V1404

\* C10 Clean before unpack: outside a dry run, when the extraction command
\* has run, the resolved destination holds no file of an earlier run, with
\* or without a rename target.
C10_CleanBeforeUnpack ==
    (pc = "rename" /\ pp.extract = "ok" /\ pp.dest # "") =>
        "stale" \notin files[pp.dest]

\* The destination has been moved to the rename target of the package.
Renamed == pkg.rename # "" /\ "rename" \in ops

\* C11 Rename retargets later steps: once the destination has been moved to
\* the rename target, the destination of the later steps is the rename
\* target: every patch of the package is applied against the rename target
\* directory, and autoreconf is run inside it.
C11_RenameRetargets ==
    Renamed =>
        /\ pp.dest = pkg.rename
        /\ pp.patchdir \in {"none", pkg.rename}
        /\ pp.reconfdir \in {"none", pkg.rename}

\* The step of the orchestrator a position belongs to: 1 fetch, 2 resolve
\* destination, 3 clean, 4 extract, 5 rename, 6 patch, 7 reconfigure; 0 is
\* the platform filter and 8 is outside ProcessPackage.
StepOf(p) ==
    CASE p \in {"filter", "filtered"} -> 0
      [] p \in {"download", "url", "endround", "raise"} -> 1
      [] p = "fetched" -> 2
      [] p = "clean" -> 3
      [] p \in {"mkdir", "format", "extract"} -> 4
      [] p = "rename" -> 5
      [] p \in {"patches", "patch"} -> 6
      [] p = "autoreconf" -> 7
      [] OTHER -> 8

\* The patch step is over and no patch failed; outside a dry run every
\* patch of the package has been applied.
PatchesDone ==
    /\ pp.failed = 0
    /\ pkg.patches = 0 \/ pp.patch = pkg.patches + 1
    /\ ~dry_run => pp.applied = 1..pkg.patches

\* What has been done so far was done in the order of the steps.
InOrder ==
    /\ "rmtree" \in ops => cache = "good" /\ StepOf(pc) >= 4
    /\ "patch" \in ops =>
          /\ StepOf(pc) >= 6
          /\ pp.extract # "none"
          /\ pkg.rename # "" /\ pp.dest # "" => Renamed /\ pp.dest = pkg.rename
    /\ pp.autoreconf # "none" => StepOf(pc) = 8 /\ PatchesDone

\* A step of the program goes on with the current step of the package, moves
\* to the next one, or leaves the package; the packages are taken one by
\* one in the order of the manifest.
StepByStep ==
    /\ StepOf(pc) < 8 /\ StepOf(pc') < 8 =>
          /\ idx' = idx
          /\ StepOf(pc') \in {StepOf(pc), StepOf(pc) + 1}
    /\ StepOf(pc) = 0 /\ StepOf(pc') = 1 => plat.requires
    /\ idx' # idx => idx' = idx + 1 /\ pc = "main" /\ pc' = "filter"
    /\ InOrder'

FullRounds == dl.rounds * Cardinality(Transferable)

\* C13 Round completeness: within a round the URLs are taken in manifest
\* order and every URL that is not skipped is attempted until one yields a
\* matching checksum; a transfer that raises or a checksum mismatch lets the
\* loop go on with the next URL and with the later rounds, the failure
\* being raised only after all RETRIES + 1 rounds; and after a mismatch the
\* downloaded file is gone before the next URL is tried.
C13_RoundCompleteness ==
    /\ pc \in {"url", "endround", "raise"} =>
          /\ dl.transfers =
                FullRounds + Cardinality({i \in Transferable : i < dl.url})
          /\ dl.tried > 0 =>
                dl.tried = IF dl.url = 1 THEN Len(dl.urls) ELSE dl.url - 1
          /\ dl.last = "mismatch" => cache = "absent"
    /\ pc = "fetched" /\ dl.transfers > 0 =>
          /\ dl.last = "match" /\ dl.tried = dl.url
          /\ dl.transfers =
                FullRounds + Cardinality({i \in Transferable : i <= dl.url})
    /\ dl.last \in {"raises", "partial", "mismatch"} =>
          pc \in {"url", "endround", "raise", "aborted"}
    /\ pc = "raise" => dl.rounds = RETRIES + 1

C13_Witness ==
    /\ pc = "url" /\ dl.url = 2 /\ dl.rounds = RETRIES
    /\ dl.last = "mismatch" /\ dl.transfers = 2 * RETRIES + 1

\* C14 Backoff between rounds: when round k has gone through all URLs
\* without a match, DownloadPackage either sleeps 10*k seconds and begins
\* round k+1, or, the last round being exhausted, raises the failure without
\* a sleep: every backoff sleep is followed by a further round.
C14_BackoffBetweenRounds ==
    [][pc = "endround" =>
         \/ /\ dl'.slept = dl.slept + 10 * (dl.rounds + 1)
            /\ dl'.rounds = dl.rounds + 1
            /\ pc' = "url" /\ dl'.url = 1
         \/ /\ dl'.slept = dl.slept
            /\ pc' = "raise"]_vars

\* The URL the loop of DownloadPackage handled last.
LastUrl == dl.urls[dl.tried]

\* C15 Mirror placeholder: a URL with the placeholder is skipped, without a
\* transfer, when no mirror is configured; with a mirror the transfer goes to
\* the URL with the placeholder replaced by the mirror; a URL without the
\* placeholder is transferred as it is written; the placeholder is never
\* part of an address that is fetched; and when every URL is skipped no
\* transfer is made in any round.
C15_MirrorPlaceholder ==
    /\ dl.tried > 0 =>
          /\ dl.last = "skipped" <=> LastUrl.placeholder /\ ~site_mirror
          /\ dl.last # "skipped" /\ LastUrl.placeholder =>
                dl.fetched = <<Mirror, "/pkg">>
          /\ dl.last # "skipped" /\ ~LastUrl.placeholder =>
                dl.fetched = UrlText(LastUrl)
    /\ \A i \in DOMAIN dl.fetched : dl.fetched[i] # "{{ site_mirror }}"
    /\ dl.urls # <<>> /\ Transferable = {} =>
          dl.transfers = 0 /\ "urlretrieve" \notin ops

C15_Witness ==
    /\ site_mirror /\ dl.tried = 2 /\ dl.last = "mismatch"
    /\ LastUrl.placeholder /\ dl.fetched = <<Mirror, "/pkg">>
    /\ dl.rounds > 0

\* Every URL of the package is skipped and all rounds are over.
C15_WitnessAllSkipped ==
    /\ pc = "raise" /\ Len(dl.urls) = 2 /\ Transferable = {}
    /\ dl.transfers = 0 /\ dl.rounds = RETRIES + 1

\* The formats the orchestrator knows.
Supported == {"tgz", "tbz", "zip", "file", "npm"}

\* The format of the current package has been read and is not a known one.
Unsupported == pkg.format # "" /\ pkg.format \notin Supported

FlagTrue == pkg.autoreconf # "" /\ Lower(pkg.autoreconf) = "true"

\* autoreconf has been run for the current package.
Reconfigured == pp.autoreconf # "none"

\* Every patch of the current package has been applied.
AllApplied == pp.failed = 0 /\ pp.applied = 1..pkg.patches

\* C17 Reconfigure gating and fatality: autoreconf is run for a package if
\* and only if the package came to the end of patching with all its patches
\* applied and its autoreconf flag is true; it is never run when the flag is
\* absent or false; and when autoreconf returns non-zero the run ends there,
\* no later package being processed.
C17_ReconfigureGating ==
    /\ Reconfigured => AllApplied /\ FlagTrue
    /\ "autoreconf" \in ops => Reconfigured
    /\ status = "done" /\ FlagTrue => pp.autoreconf = "ok"
    /\ pp.autoreconf = "failed" =>
          pc = "aborted" /\ error # "none" /\ ~ENABLED Next

\* The same outside a dry run.
C17_OutsideDryRun == ~dry_run => C17_ReconfigureGating

\* The package is between the resolution of its destination and the rename.
Resolved == StepOf(pc) \in 3..5

\* The destination is the unpack directory when there is one, otherwise the
\* explicit destination when there is one, and the archive is not consulted
\* in either case; the unpack directory exists when the extraction command
\* is chosen and run.
ExplicitFirst ==
    /\ Resolved /\ pkg.unpackdir # "" =>
          pp.dest = pkg.unpackdir /\ pp.listing[1] = "none"
    /\ Resolved /\ pkg.unpackdir = "" /\ pkg.destination # "" =>
          pp.dest = pkg.destination /\ pp.listing[1] = "none"
    /\ pc \in {"format", "extract"} /\ pkg.unpackdir # "" =>
          pkg.unpackdir \in isdir

\* Without unpack directory and explicit destination, the destination is
\* what the introspection of the format returns.
Introspects ==
    Resolved /\ pkg.unpackdir = "" /\ pkg.destination = ""
             /\ pkg.format \in Supported =>
        /\ pp.dest = pp.listing[2]
        /\ pp.listing[1] =
              CASE pkg.format \in {"tgz", "tbz", "npm"} ->
                     IF pkg.format = "tbz" THEN "tar tj" ELSE "tar tz"
                [] pkg.format = "zip" -> "unzip -t"
                [] pkg.format = "file" -> "basename"

\* The extraction command is run in the unpack directory.
InUnpackDir == pp.cwd # "none" /\ pkg.unpackdir # "" => pp.cwd = pkg.unpackdir

C18_WitnessUnpackDir ==
    /\ pc = "rename" /\ ~windows
    /\ pkg.unpackdir = "U" /\ pkg.destination = "T"
    /\ pp.dest = "U" /\ pp.cwd = "U" /\ "makedirs" \in ops

\* The seconds slept by the rounds that are over.
SleptSoFar == 5 * dl.rounds * (dl.rounds + 1)

\* C20 Fetch success postcondition: DownloadPackage returns normally only
\* with a cache file whose checksum is the expected one, either found on
\* entry or just transferred; once a matching checksum is seen the call
\* returns, the URL that matched being the last one handled and the sleeps
\* being those of the rounds before; and from the resolution of the
\* destination to the reconfiguration the cache file is there and matches.
C20_FetchPostcondition ==
    /\ pc = "fetched" =>
          /\ cache = "good" /\ dl.md5sum = "good"
          /\ \/ dl.last = "match"
             \/ dl.last = "none" /\ dl.transfers = 0
                                 /\ dl.preexisting = "good"
    /\ dl.last = "match" =>
          /\ pc = "fetched" /\ cache = "good"
          /\ dl.tried = dl.url
          /\ dl.slept = SleptSoFar
    /\ StepOf(pc) \in 2..7 => cache = "good"

C20_Witness ==
    /\ pc = "fetched" /\ dl.preexisting = "bad"
    /\ dl.last = "match" /\ dl.tried = 2 /\ dl.rounds = 2
    /\ ~Skipped(dl.urls[1])

\* Nothing has been transferred or removed for the current package.
NoTransfer ==
    /\ dl.transfers = 0
    /\ ops \cap {"urlretrieve", "remove"} = {}
    /\ pc \notin {"url", "endround", "raise"}

\* The cache file the first run left did not match: the second run has
\* removed it and does not go on without having fetched it again.
Refetched ==
    pc \notin {"filter", "filtered", "download"} =>
        /\ "remove" \in ops
        /\ StepOf(pc) \in 2..7 => "urlretrieve" \in ops /\ cache = "good"

\* Outside a dry run the clean step has left neither the rename target nor,
\* when there was no rename target to remove, the destination; and a
\* package that is done has been unpacked and patched in this run.
DoneAgain ==
    ~dry_run =>
        /\ pc = "mkdir" =>
              /\ pkg.rename \notin isdir
              /\ pp.dest \in isdir => "rmtree" \in ops
        /\ status = "done" =>
              /\ pp.ran # "none" /\ "extract" \in ops
              /\ AllApplied

C19_WitnessInterrupted ==
    /\ Again /\ kept.dirs = "given" /\ kept.cache = "bad"
    /\ pc = "clean" /\ {"remove", "urlretrieve"} \subseteq ops

=============================================================================
